---- MODULE Spec2Model ----
(***************************************************************************)
(* Model of All_App_Installation_From_GP_automation.py: the three pytest   *)
(* test functions (uninstall, install from Play Store, UI verification),   *)
(* the adb helpers they call, the two driver fixtures and the result list  *)
(* with its JSON mirror on disk.                                           *)
(*                                                                         *)
(* The device, the Play Store, the Appium driver and the adb bridge are    *)
(* the environment: what they answer is drawn with \E in the actions.      *)
(* Strings that the code searches in (package identifiers, the output of   *)
(* `pm list packages`, the dumpsys lines) are sequences of tokens, so that *)
(* the `in` and `split` of the code are computed, not assumed.             *)
(***************************************************************************)
EXTENDS Integers, Sequences, FiniteSets, TLC

\* ------------------------------------------------------------------ bounds
\* times pytest is started on the file, one after the other
MaxSessions == 2

\* ------------------------------------------------------- program constants
\* range(30) of the polling loop
PollBudget == 30
\* time.sleep(3) inside the polling loop
PollSleep == 3

\* ------------------------------------------------------------ identifiers
\* Package identifiers are sequences of characters.  PkgAB extends PkgA the
\* way "com.feelment.beta" extends "com.feelment".
PkgA == <<"a">>
PkgAB == <<"a", "b">>
PkgB == <<"b">>

\* every package the device may hold
Universe == {PkgA, PkgAB, PkgB}

Placeholder == "android.widget.TextView"

\* (package_name, ui_check) parameter tuples; app_name only feeds messages.
\* The three locator shapes the verification branches on: a configured
\* locator, the generic placeholder, an unset locator.  PkgAB is a package
\* the device may hold that is not under test.
TEST_APPS ==
  << [package_name |-> PkgA, ui_check |-> <<"XPATH", "login">>],
     [package_name |-> PkgB, ui_check |-> <<"CLASS_NAME", Placeholder>>],
     [package_name |-> PkgB, ui_check |-> <<"", "">>] >>

Targets == 1..Len(TEST_APPS)

Unknown == <<"Unknown">>
NA == <<"N/A">>

\* --------------------------------------------------------- string helpers
\* Python's `pat in s` on strings
IsSubstring(pat, s) ==
  \E i \in 0..(Len(s) - Len(pat)) : SubSeq(s, i + 1, i + Len(pat)) = pat

RECURSIVE Lines(_, _)
\* the lines `pm list packages` prints for the set S of matching packages
Lines(S, acc) ==
  IF S = {} THEN acc
  ELSE LET x == CHOOSE y \in S : TRUE
       IN Lines(S \ {x}, acc \o <<"package:">> \o x \o <<"\n">>)

\* adb shell pm list packages FILTER: prints every installed package whose
\* name contains FILTER
PmListStdout(dev, filter) ==
  Lines({q \in dev : IsSubstring(filter, q)}, <<>>)

\* ---------------------------------------------------------------- helpers
\* is_package_installed: no try/except around subprocess.run, so an error of
\* the bridge propagates; otherwise a substring test on the whole stdout.
is_package_installed(package_name, dev, bridgeError) ==
  IF bridgeError
    THEN [raised |-> TRUE, value |-> FALSE]
    ELSE [raised |-> FALSE,
          value |-> IsSubstring(<<"package:">> \o package_name,
                                PmListStdout(dev, package_name))]

\* what `pm uninstall` does to the device: it removes exactly package_name,
\* and only if it is installed and the device lets it go (pmOk)
PmUninstall(package_name, dev, pmOk) ==
  IF package_name \in dev /\ pmOk
    THEN [stdout |-> "Success", device |-> dev \ {package_name}]
    ELSE [stdout |-> "Failure", device |-> dev]

\* uninstall_package: True iff "Success" in stdout; any exception -> False
uninstall_package(package_name, dev, bridgeError, pmOk) ==
  IF bridgeError
    THEN [raised |-> FALSE, value |-> FALSE, device |-> dev]
    ELSE LET result == PmUninstall(package_name, dev, pmOk)
         IN [raised |-> FALSE, value |-> (result.stdout = "Success"),
             device |-> result.device]

\* outputs of the dumpsys|grep pipeline: returncode and stdout as lines of
\* tokens ("versionName=" is the marker, " " is white space)
DumpOutputs ==
  { [returncode |-> 0, stdout |-> << <<" ", "versionName=", "1.0">> >>],
    [returncode |-> 0,
     stdout |-> << <<"x">>, <<"versionName=", "1.0", " ">>,
                   <<"versionName=", "2.0">> >>],
    [returncode |-> 0, stdout |-> << <<"x">> >>],
    [returncode |-> 1, stdout |-> <<>>] }

\* the command failed and printed nothing
NoDump == [returncode |-> 1, stdout |-> <<>>]

\* line.split('versionName=')[1]: the tokens between the first marker and
\* the next one
AfterMarker(line) ==
  LET i == CHOOSE k \in 1..Len(line) :
             line[k] = "versionName=" /\ \A j \in 1..(k - 1) : line[j] # "versionName="
      rest == SubSeq(line, i + 1, Len(line))
      stops == {k \in 1..Len(rest) : rest[k] = "versionName="}
      n == IF stops = {} THEN Len(rest)
           ELSE (CHOOSE k \in stops : \A j \in stops : k <= j) - 1
  IN SubSeq(rest, 1, n)

\* str.strip()
Strip(s) == SelectSeq(s, LAMBDA c : c # " ")

HasMarker(line) == \E k \in 1..Len(line) : line[k] = "versionName="

\* get_app_version: first line holding the marker, "Unknown" when the
\* command fails, prints nothing, has no such line, or raises
get_app_version(bridgeError, result) ==
  IF bridgeError THEN [raised |-> FALSE, value |-> Unknown]
  ELSE IF result.returncode = 0 /\ result.stdout # <<>>
          /\ \E k \in 1..Len(result.stdout) : HasMarker(result.stdout[k])
    THEN LET k == CHOOSE n \in 1..Len(result.stdout) :
                    /\ HasMarker(result.stdout[n])
                    /\ \A j \in 1..(n - 1) : ~HasMarker(result.stdout[j])
         IN [raised |-> FALSE, value |-> Strip(AfterMarker(result.stdout[k]))]
    ELSE [raised |-> FALSE, value |-> Unknown]

\* AppiumBy chosen by check_element from by_type
AppiumBy(by_type) ==
  CASE by_type = "ACCESSIBILITY_ID" -> "accessibility id"
    [] by_type = "CLASS_NAME" -> "class name"
    [] by_type = "XPATH" -> "xpath"
    [] OTHER -> "accessibility id"

\* check_element: True when the wait finds (by, value) on the screen, False
\* on TimeoutException
check_element(screen, by_type, value) == <<AppiumBy(by_type), value>> \in screen

\* what the launched app may show
Screens ==
  SUBSET { <<"xpath", "login">>, <<"accessibility id", "login">> }

\* --------------------------------------------------------- test functions
BoolStr(b) == IF b THEN "True" ELSE "False"

\* one entry per helper call that met an error of the bridge
Fault(helper, bridgeError, r, ret) ==
  IF bridgeError
    THEN {[helper |-> helper, raised |-> r.raised,
           ret |-> IF r.raised THEN "raised" ELSE ret]}
    ELSE {}

\* save_allure_screenshot: the attachment's name
save_allure_screenshot(name, failed) ==
  <<"screenshot", name, IF failed THEN "failed" ELSE "success">>

\* installation result record (app_name and timestamp carry no logic)
Result(package_name, status, version) ==
  [package_name |-> package_name, installation_status |-> status,
   installed_version |-> version]

\* test_uninstall_app.  f1, fu, f2: the bridge fails in the first presence
\* query, in the uninstall, in the second presence query.
test_uninstall_app(package_name, dev, f1, fu, pmOk, f2) ==
  LET c1 == is_package_installed(package_name, dev, f1)
      l1 == Fault("is_package_installed", f1, c1, BoolStr(c1.value))
  IN IF c1.raised
       THEN [outcome |-> "error", ops |-> {}, param |-> "", device |-> dev,
             log |-> l1, checked |-> "raised"]
     ELSE IF c1.value
       THEN LET success == uninstall_package(package_name, dev, fu, pmOk)
                c2 == is_package_installed(package_name, success.device, f2)
                l2 == l1 \cup Fault("uninstall_package", fu, success,
                                     BoolStr(success.value))
                         \cup Fault("is_package_installed", f2, c2,
                                     BoolStr(c2.value))
            IN IF c2.raised
                 THEN [outcome |-> "error", ops |-> {<<"pm uninstall">>},
                       param |-> "", device |-> success.device, log |-> l2,
                       checked |-> "True"]
               ELSE IF c2.value
                 THEN [outcome |-> "failed", ops |-> {<<"pm uninstall">>},
                       param |-> "", device |-> success.device, log |-> l2,
                       checked |-> "True"]
               ELSE [outcome |-> "passed", ops |-> {<<"pm uninstall">>},
                     param |-> IF success.value THEN "Success" ELSE "Failed",
                     device |-> success.device, log |-> l2,
                     checked |-> "True"]
     ELSE [outcome |-> "passed", ops |-> {}, param |-> "Not installed",
           device |-> dev, log |-> l1, checked |-> "False"]

\* the except TimeoutException branch of test_install_app_from_play_store
install_on_timeout(package_name, dev, f1, fv, dump) ==
  LET c == is_package_installed(package_name, dev, f1)
      l1 == Fault("is_package_installed", f1, c, BoolStr(c.value))
  IN IF c.raised
       THEN [outcome |-> "error", records |-> <<>>, ops |-> {}, param |-> "",
             log |-> l1, checked |-> "raised", path |-> "nobutton_error"]
     ELSE IF c.value
       THEN LET version == get_app_version(fv, dump)
            IN [outcome |-> "passed",
                records |-> <<Result(package_name,
                                     "Success (no install button)",
                                     version.value)>>,
                ops |-> {},
                param |-> "Success (already installed)",
                log |-> l1 \cup Fault("get_app_version", fv, version, "Unknown"),
                checked |-> "True", path |-> "nobutton_present"]
     ELSE [outcome |-> "failed",
           records |-> <<Result(package_name, "Failed", NA)>>,
           ops |-> {save_allure_screenshot("install_failed", TRUE)},
           param |-> "", log |-> l1, checked |-> "False",
           path |-> "nobutton_absent"]

\* the loop with one pass too many
poll_iteration_late(checks, found) ==
  IF found THEN "break"
  ELSE IF checks + 1 <= PollBudget THEN "again"
  ELSE "exhausted"

\* one pass of `for _ in range(30)`: checks is the number of presence checks
\* already made, found the answer of this one
poll_iteration(checks, found) ==
  IF found THEN "break"
  ELSE IF checks + 1 < PollBudget THEN "again"
  ELSE "exhausted"

\* the test against the placeholder forgotten
locator_configured_any(ui_check) == ui_check[1] # "" /\ ui_check[2] # ""

\* the locator is asserted only when kind and value are set and the value
\* is not the placeholder
locator_configured(ui_check) ==
  ui_check[1] # "" /\ ui_check[2] # "" /\ ui_check[2] # Placeholder

\* pytest.fail in the place of pytest.skip
verify_absent_fail(log) ==
  [outcome |-> "failed", ops |-> {}, param |-> "", log |-> log,
   checked |-> "False", ui_found |-> "none"]

\* test_verify_app_ui when the package is not installed: pytest.skip before
\* the driver is touched
verify_absent(log) ==
  [outcome |-> "skipped", ops |-> {}, param |-> "", log |-> log,
   checked |-> "False", ui_found |-> "none"]

\* test_verify_app_ui with a configured locator: check_element decides
verify_locator(found, log) ==
  IF found
    THEN [outcome |-> "passed",
          ops |-> {<<"launch">>, <<"lookup">>,
                   save_allure_screenshot("ui_verified", FALSE)},
          param |-> "Success", log |-> log, checked |-> "True",
          ui_found |-> "True"]
    ELSE [outcome |-> "failed",
          ops |-> {<<"launch">>, <<"lookup">>,
                   save_allure_screenshot("ui_failed", TRUE)},
          param |-> "Failed", log |-> log, checked |-> "True",
          ui_found |-> "False"]

\* test_verify_app_ui without a configured locator: a screenshot for manual
\* verification, no assertion
verify_manual(log) ==
  [outcome |-> "passed",
   ops |-> {<<"launch">>, save_allure_screenshot("ui_manual_check", FALSE)},
   param |-> "Manual check required", log |-> log, checked |-> "True",
   ui_found |-> "none"]

\* test_verify_app_ui.  driverError: the launch command raises.  An
\* exception that is neither an assertion nor pytest.fail/skip is kept apart
\* as outcome "error".
test_verify_app_ui(package_name, ui_check, dev, f1, driverError, screen) ==
  LET c == is_package_installed(package_name, dev, f1)
      l1 == Fault("is_package_installed", f1, c, BoolStr(c.value))
  IN IF c.raised
       THEN [outcome |-> "error", ops |-> {}, param |-> "", log |-> l1,
             checked |-> "raised", ui_found |-> "none"]
     ELSE IF ~c.value THEN verify_absent(l1)
     ELSE IF driverError
       THEN [outcome |-> "error", ops |-> {<<"launch">>}, param |-> "",
             log |-> l1, checked |-> "True", ui_found |-> "none"]
     ELSE IF locator_configured(ui_check)
       THEN verify_locator(check_element(screen, ui_check[1], ui_check[2]), l1)
     ELSE verify_manual(l1)

\* ------------------------------------------------------------------ state
VARIABLES
  device,                \* packages installed on the device
  installation_results,  \* the module-level result list
  file,                  \* installation_results.json
  sessions,              \* driver sessions open on the Appium server
  run,                   \* how many times pytest was started
  pos,                   \* number of the last item collected in this run
  pc,                    \* where the pytest run stands
  t                      \* the test being run (or the last one run)

vars == <<device, installation_results, file, sessions, run, pos, pc, t>>

NoFile == [exists |-> FALSE, content |-> <<>>]

\* a test that is about to run.  base: length of installation_results when it
\* starts; present: whether the target is on the device when the test (or the
\* except branch of the install test) queries it; rerun: the previous test
\* was a passed uninstall of the same package.
NewTest(fn, idx, dev, last, results) ==
  [fn |-> fn, idx |-> idx, outcome |-> "none", base |-> Len(results), ops |-> {},
   param |-> "", polls |-> 0, slept |-> 0, path |-> "", log |-> {},
   checked |-> "none", present |-> (TEST_APPS[idx].package_name \in dev),
   ui_found |-> "none", acquired |-> FALSE, quits |-> 0,
   rerun |-> /\ fn = "uninstall" /\ last.fn = "uninstall"
             /\ last.outcome = "passed"
             /\ TEST_APPS[last.idx].package_name = TEST_APPS[idx].package_name,
   changed |-> FALSE]

NoTest ==
  [fn |-> "none", idx |-> 1, outcome |-> "none", base |-> 0, ops |-> {},
   param |-> "", polls |-> 0, slept |-> 0, path |-> "", log |-> {},
   checked |-> "none", present |-> FALSE, ui_found |-> "none",
   acquired |-> FALSE, quits |-> 0, rerun |-> FALSE, changed |-> FALSE]

Init ==
  /\ device \in SUBSET Universe
  /\ installation_results = <<>>
  /\ file = NoFile
  /\ sessions = 0
  /\ run = 1
  /\ pos = 0
  /\ pc = "idle"
  /\ t = NoTest

\* save_installation_results: the whole list replaces the file
save_installation_results(results) == [exists |-> TRUE, content |-> results]

\* pytest runs the items in the order of the file: every test_uninstall_app
\* item, then every test_install_app_from_play_store item, then every
\* test_verify_app_ui item, each in the order of TEST_APPS.  Items may be
\* deselected, none runs twice in one run.
Item(fn, i) ==
  CASE fn = "uninstall" -> i
    [] fn = "install" -> Len(TEST_APPS) + i
    [] fn = "verify" -> 2 * Len(TEST_APPS) + i

\* pytest is started again: the module is imported afresh, the file stays
NewSession ==
  /\ pc = "idle"
  /\ pos > 0
  /\ run < MaxSessions
  /\ run' = run + 1
  /\ pos' = 0
  /\ installation_results' = <<>>
  /\ t' = NoTest
  /\ UNCHANGED <<device, file, sessions, pc>>

\* a pytest item of test_uninstall_app runs from start to end
UninstallTest(i) ==
  /\ pc = "idle"
  /\ Item("uninstall", i) > pos
  /\ pos' = Item("uninstall", i)
  /\ \E f1 \in BOOLEAN, fu \in BOOLEAN, pmOk \in BOOLEAN, f2 \in BOOLEAN :
       LET r == test_uninstall_app(TEST_APPS[i].package_name, device,
                                   f1, fu, pmOk, f2)
       IN \* the later answers of the bridge matter only if they are asked for
          /\ r.checked # "True" => ~fu /\ pmOk /\ ~f2
          /\ fu => pmOk
          /\ t' = [NewTest("uninstall", i, device, t, installation_results) EXCEPT
                     !.outcome = r.outcome, !.ops = r.ops, !.param = r.param,
                     !.log = r.log, !.checked = r.checked,
                     !.changed = (r.device # device)]
          /\ device' = r.device
  /\ UNCHANGED <<installation_results, file, sessions, run, pc>>

\* fixture play_store_driver up to its yield: webdriver.Remote opens a
\* session, or raises and the test errors without a body
play_store_driver(i) ==
  /\ pc = "idle"
  /\ Item("install", i) > pos
  /\ pos' = Item("install", i)
  /\ \E ok \in BOOLEAN :
       IF ok
         THEN /\ sessions' = sessions + 1
              /\ pc' = "install_body"
              /\ t' = [NewTest("install", i, device, t, installation_results) EXCEPT !.acquired = TRUE]
         ELSE /\ t' = [NewTest("install", i, device, t, installation_results) EXCEPT
                         !.outcome = "error", !.path = "setup_error"]
              /\ UNCHANGED <<sessions, pc>>
  /\ UNCHANGED <<device, installation_results, file, run>>

\* test_install_app_from_play_store up to the polling loop: the market
\* intent, the wait for the Install button, the click, or the except branch
InstallWait ==
  /\ pc = "install_body"
  /\ LET package_name == TEST_APPS[t.idx].package_name
     IN \E button \in {"clickable", "timeout", "driver_error"} :
          CASE button = "clickable" ->
                 /\ t' = [t EXCEPT !.ops = {<<"click">>,
                             save_allure_screenshot("install_clicked", FALSE)}]
                 /\ pc' = "poll"
                 /\ UNCHANGED <<installation_results, file>>
            [] button = "driver_error" ->
                 /\ t' = [t EXCEPT !.outcome = "error", !.path = "driver_error"]
                 /\ pc' = "install_teardown"
                 /\ UNCHANGED <<installation_results, file>>
            [] button = "timeout" ->
                 \E f1 \in BOOLEAN, fv \in BOOLEAN, dump \in DumpOutputs :
                   LET r == install_on_timeout(package_name, device, f1, fv, dump)
                   IN /\ r.checked # "True" => ~fv
                      /\ r.checked # "True" \/ fv => dump = NoDump
                      /\ installation_results' = installation_results \o r.records
                      /\ file' = IF r.records # <<>>
                                   THEN save_installation_results(installation_results')
                                   ELSE file
                      /\ t' = [t EXCEPT
                                 !.outcome = r.outcome, !.ops = r.ops,
                                 !.param = r.param, !.log = r.log,
                                 !.checked = r.checked, !.path = r.path,
                                 !.present = (package_name \in device)]
                      /\ pc' = "install_teardown"
  /\ UNCHANGED <<device, sessions, run, pos>>

\* the Play Store finishes the install that the click asked for
PlayStoreInstalls ==
  /\ pc = "poll"
  /\ TEST_APPS[t.idx].package_name \notin device
  /\ device' = device \cup {TEST_APPS[t.idx].package_name}
  /\ UNCHANGED <<installation_results, file, sessions, run, pos, pc, t>>

\* one pass of the polling loop and, when the loop ends, the rest of the try
\* block: the assert, the version query, the append and the save
InstallPoll ==
  /\ pc = "poll"
  /\ LET package_name == TEST_APPS[t.idx].package_name
     IN \E f1 \in BOOLEAN, fv \in BOOLEAN, dump \in DumpOutputs :
          LET c == is_package_installed(package_name, device, f1)
              l1 == Fault("is_package_installed", f1, c, BoolStr(c.value))
              step == poll_iteration(t.polls, c.value)
              version == get_app_version(fv, dump)
          IN \* the version is asked for only after a successful loop
             /\ c.raised \/ step # "break" => ~fv
             /\ c.raised \/ step # "break" \/ fv => dump = NoDump
             /\ CASE c.raised ->
                       /\ t' = [t EXCEPT !.outcome = "error", !.log = l1,
                                  !.polls = @ + 1, !.path = "clicked_error"]
                       /\ pc' = "install_teardown"
                       /\ UNCHANGED <<installation_results, file>>
                  [] ~c.raised /\ step = "break" ->
                       /\ installation_results' = Append(installation_results,
                              Result(package_name, "Success", version.value))
                       /\ file' = save_installation_results(installation_results')
                       /\ t' = [t EXCEPT
                                  !.outcome = "passed", !.polls = @ + 1,
                                  !.param = "Success",
                                  !.path = "clicked_appeared",
                                  !.log = Fault("get_app_version", fv, version,
                                                "Unknown"),
                                  !.ops = @ \cup
                                    {save_allure_screenshot("installed", FALSE)}]
                       /\ pc' = "install_teardown"
                  [] ~c.raised /\ step = "again" ->
                       /\ t' = [t EXCEPT !.polls = @ + 1,
                                         !.slept = @ + PollSleep]
                       /\ UNCHANGED <<installation_results, file, pc>>
                  [] ~c.raised /\ step = "exhausted" ->
                       \* assert installation_success fails: nothing is
                       \* appended and nothing is saved
                       /\ t' = [t EXCEPT !.polls = @ + 1,
                                         !.slept = @ + PollSleep,
                                         !.outcome = "failed",
                                         !.path = "clicked_timeout"]
                       /\ pc' = "install_teardown"
                       /\ UNCHANGED <<installation_results, file>>
  /\ UNCHANGED <<device, sessions, run, pos>>

\* driver.quit() reached only when the test passed
finalizer_runs_on_pass(outcome) == outcome = "passed"

\* pytest resumes a yield fixture after the test whatever its outcome
finalizer_runs(outcome) == TRUE

\* fixture play_store_driver after its yield: driver.quit()
play_store_driver_quit ==
  /\ pc = "install_teardown"
  /\ IF finalizer_runs(t.outcome)
       THEN /\ sessions' = sessions - 1
            /\ t' = [t EXCEPT !.quits = @ + 1]
       ELSE UNCHANGED <<sessions, t>>
  /\ pc' = "idle"
  /\ UNCHANGED <<device, installation_results, file, run, pos>>

\* fixture app_driver up to its yield
app_driver(i) ==
  /\ pc = "idle"
  /\ Item("verify", i) > pos
  /\ pos' = Item("verify", i)
  /\ \E ok \in BOOLEAN :
       IF ok
         THEN /\ sessions' = sessions + 1
              /\ pc' = "verify_body"
              /\ t' = [NewTest("verify", i, device, t, installation_results) EXCEPT !.acquired = TRUE]
         ELSE /\ t' = [NewTest("verify", i, device, t, installation_results) EXCEPT
                         !.outcome = "error", !.path = "setup_error"]
              /\ UNCHANGED <<sessions, pc>>
  /\ UNCHANGED <<device, installation_results, file, run>>

\* the body of test_verify_app_ui
VerifyTest ==
  /\ pc = "verify_body"
  /\ \E f1 \in BOOLEAN, driverError \in BOOLEAN, screen \in Screens :
       LET r == test_verify_app_ui(TEST_APPS[t.idx].package_name,
                                   TEST_APPS[t.idx].ui_check, device,
                                   f1, driverError, screen)
       IN /\ r.checked # "True" => ~driverError
          /\ r.ui_found = "none" => screen = {}
          /\ t' = [t EXCEPT !.outcome = r.outcome, !.ops = r.ops,
                            !.param = r.param, !.log = r.log,
                            !.checked = r.checked, !.ui_found = r.ui_found]
  /\ pc' = "verify_teardown"
  /\ UNCHANGED <<device, installation_results, file, sessions, run, pos>>

\* fixture app_driver after its yield: driver.quit()
app_driver_quit ==
  /\ pc = "verify_teardown"
  /\ IF finalizer_runs(t.outcome)
       THEN /\ sessions' = sessions - 1
            /\ t' = [t EXCEPT !.quits = @ + 1]
       ELSE UNCHANGED <<sessions, t>>
  /\ pc' = "idle"
  /\ UNCHANGED <<device, installation_results, file, run, pos>>

Next ==
  \/ NewSession
  \/ \E i \in Targets : UninstallTest(i)
  \/ \E i \in Targets : play_store_driver(i)
  \/ InstallWait
  \/ PlayStoreInstalls
  \/ InstallPoll
  \/ play_store_driver_quit
  \/ \E i \in Targets : app_driver(i)
  \/ VerifyTest
  \/ app_driver_quit

Spec == Init /\ [][Next]_vars

\* ----------------------------------------------------------------- claims
\* records the running (or last) install attempt appended
Appended == Len(installation_results) - t.base

\* the four terminal outcomes of an install attempt
InstallEnded ==
  /\ t.fn = "install"
  /\ t.path \in {"clicked_appeared", "clicked_timeout",
                 "nobutton_present", "nobutton_absent"}

\* C1: every install attempt that reaches one of its four terminal outcomes
\* has appended exactly one record to installation_results.
C1_OneRecordPerAttempt == InstallEnded => Appended = 1

\* C2: at the end of every install attempt installation_results.json holds
\* the whole of installation_results, in order; every write of the file
\* writes the whole list, and within a run the list only grows at its end, so
\* that a record once written is neither changed nor removed.
C2_FileMirrorsList ==
  /\ [](InstallEnded => file.exists /\ file.content = installation_results)
  /\ [][run' = run =>
          /\ Len(installation_results') >= Len(installation_results)
          /\ SubSeq(installation_results', 1, Len(installation_results))
               = installation_results
          /\ file' # file =>
               file'.exists /\ file'.content = installation_results']_vars

\* C3: the polling loop makes at most 30 presence checks, 3 seconds of sleep
\* after each failed one, leaves the loop at the first check that finds the
\* package, and after the 30th failed check the attempt has a terminal
\* outcome instead of polling on.
C3_PollingBounded ==
  /\ [](/\ t.polls <= 30
        /\ t.slept <= 90
        /\ pc = "poll" => t.polls < 30 /\ t.slept = 3 * t.polls
                          /\ t.outcome = "none")
  /\ [][pc = "poll" /\ t'.polls = t.polls + 1 =>
          /\ t'.log = {} /\ TEST_APPS[t.idx].package_name \in device
               => pc' = "install_teardown" /\ t'.outcome = "passed"
                  /\ t'.slept = t.slept
          /\ t'.polls = 30
               => pc' = "install_teardown"
                  /\ t'.outcome \in {"passed", "failed", "error"}]_vars

\* the loop ran out: 30 failed checks, 90 seconds slept, the attempt failed
C3_Witness ==
  /\ t.fn = "install" /\ t.polls = 30 /\ t.slept = 90
  /\ t.outcome = "failed" /\ pc = "idle"

\* C4: when is_package_installed answers false at the start of
\* test_verify_app_ui the test is skipped and neither a launch command nor
\* a locator lookup nor a screenshot was made.
C4_SkipWhenAbsent ==
  t.fn = "verify" /\ t.checked = "False" =>
    /\ t.outcome = "skipped"
    /\ t.ops = {}

C4_Witness ==
  /\ t.fn = "verify" /\ t.checked = "False" /\ t.acquired
  /\ t.outcome = "skipped" /\ pc = "idle"

\* C5: test_uninstall_app on a target whose package is absent issues no
\* uninstall command, records "Not installed" and passes; run again right
\* after a passed uninstall of the same package it passes with "Not
\* installed" and leaves the device as it was.
C5_UninstallIdempotent ==
  t.fn = "uninstall" /\ t.outcome # "none" /\ t.log = {} =>
    /\ ~t.present => /\ t.ops = {}
                     /\ t.param = "Not installed"
                     /\ t.outcome = "passed"
    /\ t.rerun => /\ t.outcome = "passed"
                  /\ t.param = "Not installed"
                  /\ ~t.changed

\* C6: a helper that meets an error of the bridge does not raise and
\* returns its degraded value: False for is_package_installed and
\* uninstall_package, "Unknown" for get_app_version.
C6_BridgeErrorsCaught ==
  \A e \in t.log :
    /\ ~e.raised
    /\ e.ret = IF e.helper = "get_app_version" THEN "Unknown" ELSE "False"

\* C7: after a timeout of the wait for the Install button the attempt ends
\* by the package's presence: present, it records "Success (no install
\* button)" with the queried version and passes; absent, it records "Failed"
\* with version "N/A", takes the failure screenshot and fails.
C7_TimeoutBecomesPresenceCheck ==
  t.fn = "install" /\ t.path \in {"nobutton_present", "nobutton_absent"} =>
    /\ Appended = 1
    /\ LET result == installation_results[Len(installation_results)]
       IN IF t.present
            THEN /\ result.installation_status = "Success (no install button)"
                 /\ result.installed_version # NA
                 /\ t.outcome = "passed"
            ELSE /\ result.installation_status = "Failed"
                 /\ result.installed_version = NA
                 /\ save_allure_screenshot("install_failed", TRUE) \in t.ops
                 /\ t.outcome = "failed"

\* C8: a test that acquired a driver session has quit it exactly once when
\* it is over, whatever its outcome; no session is open between tests and
\* never more than one is open.
C8_SessionReleased ==
  /\ sessions \in {0, 1}
  /\ t.quits <= 1
  /\ pc = "idle" => sessions = 0
  /\ pc = "idle" /\ t.acquired => t.quits = 1
  /\ pc # "idle" => sessions = 1 /\ t.quits = 0

\* a test whose body ended in an unexpected exception released its session
C8_Witness ==
  /\ pc = "idle" /\ t.acquired /\ t.outcome = "error"
  /\ t.quits = 1 /\ sessions = 0

\* C9: is_package_installed(p) answers true exactly when a package whose
\* identifier is p is installed.
C9_ExactMatch ==
  t.checked \in {"True", "False"} => ((t.checked = "True") <=> t.present)

\* C10: for an installed target the verdict of test_verify_app_ui follows the
\* locator: configured (kind and value set, value not the placeholder), the
\* element is looked up, found means passed with the success screenshot, not
\* found means failed with the failure screenshot; unset or placeholder, the
\* manual-review screenshot is taken, nothing is looked up, the test passes.
C10_VerdictFollowsLocator ==
  LET ui_check == TEST_APPS[t.idx].ui_check
      configured == ui_check[1] # "" /\ ui_check[2] # ""
                    /\ ui_check[2] # "android.widget.TextView"
  IN t.fn = "verify" /\ t.present /\ t.outcome \notin {"none", "error"} =>
       IF configured
         THEN /\ <<"lookup">> \in t.ops
              /\ t.ui_found \in {"True", "False"}
              /\ t.ui_found = "True" =>
                   /\ t.outcome = "passed"
                   /\ <<"screenshot", "ui_verified", "success">> \in t.ops
              /\ t.ui_found = "False" =>
                   /\ t.outcome = "failed"
                   /\ <<"screenshot", "ui_failed", "failed">> \in t.ops
         ELSE /\ <<"lookup">> \notin t.ops
              /\ <<"screenshot", "ui_manual_check", "success">> \in t.ops
              /\ t.outcome = "passed"

\* the configured locator was not found and the test failed
C10_Witness ==
  /\ t.fn = "verify" /\ t.present /\ t.ui_found = "False"
  /\ t.outcome = "failed" /\ pc = "idle"

====
